---------------------------- MODULE Spec2Model ----------------------------
(***************************************************************************)
(* Selection-addressing and history engine of the TinyText editor.         *)
(*                                                                         *)
(* The module models HistoryManager (src/src/core/HistoryManager.ts), the  *)
(* undo/redo commands registered in registerBuiltinCommands                *)
(* (src/src/core/EventBus.ts), CommandManager.exec                         *)
(* (src/src/core/CommandManager.ts) and the change pipeline of             *)
(* TinyTextEditor (src/src/core/SchemaValidator.ts).                       *)
(*                                                                         *)
(* Among the specifications given:                                         *)
(*   Spec         a HistoryManager driven through its public API with      *)
(*                arbitrary arguments;                                     *)
(*   SpecEditor   a live editor: input events, the UI debounce, the        *)
(*                history debounce, the undo/redo commands and destroy;    *)
(*   SpecBus      an EventBus: on, once, onAny, off and emit;              *)
(*   SpecHost     an editor with plugins and event handlers;               *)
(*   SpecContent  an editor whose content is set by the constructor and    *)
(*                by setHTML;                                              *)
(*   SpecLimit    an editor constructed with options.maxLength.            *)
(***************************************************************************)
EXTENDS Integers, Sequences, FiniteSets, TLC

\* ------------------------------------------------------------------------
\* Bounds of the model
\* ------------------------------------------------------------------------

\* history capacity of the instance under test (constructor argument maxSize)
MaxSize == 2

\* document contents are the opaque strings "0" .. "MaxHtml"
MaxHtml == 1

\* number of timeouts the runtime can hold at once
MaxTimers == 3

\* the largest capacity of the scripted runs of distinct pushes
MaxCapacity == 2

\* the capacity of the scripted push / undo / redo trace
TraceCapacity == 3

\* the largest number of nodes of a DOM tree, the root included
MaxNodes == 3
\* the paragraphs of the document of SpecDoc, and the characters of each
DocParagraphs == 5
ParagraphLength == 3
\* the entries one event may have, and the wildcard listeners, in SpecBus
MaxListeners == 3
MaxWildcards == 1
\* the plugins an editor holds at once in SpecHost
MaxPlugins == 2
\* the largest options.maxLength of SpecLimit
MaxLength == 2

\* ------------------------------------------------------------------------
\* Program constants
\* ------------------------------------------------------------------------

DEFAULT_MAX_SIZE == 200

DEBOUNCE_MS == 300

\* delay of the debounced change handler installed by _attachListeners
UI_DEBOUNCE_MS == 150

\* ------------------------------------------------------------------------
\* Values
\* ------------------------------------------------------------------------

\* JavaScript null (for objects); timer handles use 0 for null
Null == [null |-> TRUE]

Htmls == 0..MaxHtml

\* SerializedSelection: a collapsed caret at offset o of the text node of the
\* first paragraph
Caret(o) ==
    [anchorPath |-> <<0, 0>>, anchorOffset |-> o,
     focusPath |-> <<0, 0>>, focusOffset |-> o]

SerializedSelections == {Caret(1)}

\* SerializedSelection | null
Selections == SerializedSelections \cup {Null}

\* HistorySnapshot. The timestamp field is written (Date.now()) and never read
\* by the program; the model leaves it out.
HistorySnapshot(h, s) == [html |-> h, selection |-> s]

Last(seq) == seq[Len(seq)]

Front(seq) == SubSeq(seq, 1, Len(seq) - 1)

\* the elements of a sequence
Range1(seq) == {seq[i] : i \in 1..Len(seq)}

\* A DOM tree is a function from its nodes to what they hold: an element has
\* child nodes, a text node has data of some length.  Nodes are numbered; a
\* node that is no child of another one has no parentNode.
Root == 0

\* the null of a Node-valued result
NoNode == -1

ElementNode(childNodes) ==
    [isText |-> FALSE, childNodes |-> childNodes, length |-> 0]

TextNode(length) == [isText |-> TRUE, childNodes |-> <<>>, length |-> length]

\* the editable root without children
EmptyTree == (Root :> ElementNode(<<>>))

VARIABLES
    undoStack,      \* HistoryManager.undoStack
    redoStack,      \* HistoryManager.redoStack
    debounceTimer,  \* HistoryManager.debounceTimer: a timer handle, 0 = null
    locked,         \* HistoryManager.locked
    maxSize,        \* HistoryManager.maxSize
    timers,         \* timeouts pending in the runtime (setTimeout table)
    editable,       \* TinyTextEditor.editable.innerHTML
    liveSelection,  \* the platform selection, as serialize() reads it
    uiTimer,        \* handle held by the debounced change handler, 0 = none
    destroyed,      \* TinyTextEditor._destroyed
    emitted,        \* the events the last step emitted on the EventBus
    lastCall,       \* the operation performed by the last step
    ret,            \* what that operation returned (undo / redo), else Null
    replay,         \* what the last replay left, until the next user input
    pushLog,        \* the contents pushed in a scripted run, in call order
    tree,           \* the DOM tree under the editable root, by node
    saved,          \* a serialized selection a caller holds
    options,        \* TinyTextEditor._options, the resolved EditorOptions
    listeners,      \* EventBus.listeners: the entries of each event
    wildcardListeners,  \* EventBus.wildcardListeners
    invoked,        \* what the handlers called in the last step did, in order
    plugins,        \* PluginManager.plugins, in insertion order
    inits           \* the plugins whose init has been called, in call order

historyVars == <<undoStack, redoStack, debounceTimer, locked, maxSize>>

editorVars == <<editable, liveSelection, uiTimer, destroyed, emitted>>

domVars == <<tree, saved>>

busVars == <<listeners, wildcardListeners, invoked>>

pluginVars == <<plugins, inits>>

hostVars == <<options, busVars, pluginVars>>

vars == <<undoStack, redoStack, debounceTimer, locked, maxSize, timers,
          editable, liveSelection, uiTimer, destroyed, emitted, lastCall,
          ret, replay, pushLog, tree, saved, options, listeners,
          wildcardListeners, invoked, plugins, inits>>

\* the event types of the EventBus that the model follows
EventTypes == {"change", "destroy"}

\* EditorOptions as _resolveOptions fills them in when the host gives none
DefaultOptions == [maxLength |-> 0, sanitize |-> TRUE]

\* an editor with default options, without listeners and without plugins
NoHost ==
    /\ options = DefaultOptions
    /\ listeners = [event \in EventTypes |-> <<>>]
    /\ wildcardListeners = <<>>
    /\ invoked = <<>>
    /\ plugins = <<>>
    /\ inits = <<>>

\* ------------------------------------------------------------------------
\* The runtime's timer table
\* ------------------------------------------------------------------------

TimerIds == {t.id : t \in timers}

\* setTimeout returns a handle that no pending timeout (ts) and no reference
\* still held by a caller (held) uses
NewTimerId(ts, held) ==
    CHOOSE i \in 1..(MaxTimers + 2) :
        /\ i \notin {x.id : x \in ts} \cup held
        /\ \A j \in 1..(i - 1) : j \in {x.id : x \in ts} \cup held

\* clearTimeout(handle): a no-op for null and for a handle that already fired
ClearTimeout(ts, handle) == {t \in ts : t.id # handle}

\* ------------------------------------------------------------------------
\* HistoryManager, as functions of the manager's state
\* ------------------------------------------------------------------------

\* the manager's fields together with the timer table
History ==
    [undoStack |-> undoStack, redoStack |-> redoStack,
     debounceTimer |-> debounceTimer, locked |-> locked, maxSize |-> maxSize,
     timers |-> timers]

\* doPush that trims an over-long undo stack at the wrong end
DoPushTrimsNewest(H, html, selection) ==
    IF H.undoStack # <<>> /\ Last(H.undoStack).html = html
    THEN H
    ELSE LET pushed == Append(H.undoStack, HistorySnapshot(html, selection))
         IN  [H EXCEPT !.undoStack = IF Len(pushed) > H.maxSize
                                     THEN Front(pushed)
                                     ELSE pushed,
                       !.redoStack = <<>>]

\* doPush without the trim of an over-long undo stack
DoPushNoTrim(H, html, selection) ==
    IF H.undoStack # <<>> /\ Last(H.undoStack).html = html
    THEN H
    ELSE [H EXCEPT !.undoStack = Append(H.undoStack,
                                        HistorySnapshot(html, selection)),
                   !.redoStack = <<>>]

\* doPush that leaves the redo stack alone
DoPushKeepsRedo(H, html, selection) ==
    IF H.undoStack # <<>> /\ Last(H.undoStack).html = html
    THEN H
    ELSE LET pushed == Append(H.undoStack, HistorySnapshot(html, selection))
         IN  [H EXCEPT !.undoStack = IF Len(pushed) > H.maxSize
                                     THEN Tail(pushed)
                                     ELSE pushed]

\* doPush without the duplicate check
DoPushNoDedup(H, html, selection) ==
    LET pushed == Append(H.undoStack, HistorySnapshot(html, selection))
    IN  [H EXCEPT !.undoStack = IF Len(pushed) > H.maxSize
                                THEN Tail(pushed)
                                ELSE pushed,
                  !.redoStack = <<>>]

\* the closure doPush of push(), run with the captured html and selection
DoPush(H, html, selection) ==
    IF H.undoStack # <<>> /\ Last(H.undoStack).html = html
    THEN H
    ELSE LET pushed == Append(H.undoStack, HistorySnapshot(html, selection))
         IN  [H EXCEPT !.undoStack = IF Len(pushed) > H.maxSize
                                     THEN Tail(pushed)
                                     ELSE pushed,
                       !.redoStack = <<>>]

\* the pending timeout created by push(html, selection, false)
DebounceTimeout(id, html, selection) ==
    [id |-> id, kind |-> "history", html |-> html, selection |-> selection,
     delay |-> DEBOUNCE_MS]

\* push that does not look at the lock
PushUnguarded(H, html, selection, immediate, held) ==
    IF immediate
    THEN DoPush([H EXCEPT !.timers = ClearTimeout(H.timers, H.debounceTimer),
                          !.debounceTimer = 0],
                html, selection)
    ELSE LET cleared == ClearTimeout(H.timers, H.debounceTimer)
             id == NewTimerId(cleared, held)
         IN  [H EXCEPT !.timers = cleared \cup
                                      {DebounceTimeout(id, html, selection)},
                       !.debounceTimer = id]

\* push whose debounced path arms a timeout without clearing the previous one
PushLeaksTimer(H, html, selection, immediate, held) ==
    IF H.locked THEN H
    ELSE IF immediate
    THEN DoPush([H EXCEPT !.timers = ClearTimeout(H.timers, H.debounceTimer),
                          !.debounceTimer = 0],
                html, selection)
    ELSE LET id == NewTimerId(H.timers, held)
         IN  [H EXCEPT !.timers = H.timers \cup
                                      {DebounceTimeout(id, html, selection)},
                       !.debounceTimer = id]

\* push whose immediate path commits without cancelling the pending timeout
PushNoCancel(H, html, selection, immediate, held) ==
    IF H.locked THEN H
    ELSE IF immediate
    THEN DoPush(H, html, selection)
    ELSE LET cleared == ClearTimeout(H.timers, H.debounceTimer)
             id == NewTimerId(cleared, held)
         IN  [H EXCEPT !.timers = cleared \cup
                                      {DebounceTimeout(id, html, selection)},
                       !.debounceTimer = id]

\* push(html, selection, immediate); held = handles other objects still hold
Push(H, html, selection, immediate, held) ==
    IF H.locked THEN H
    ELSE IF immediate
    THEN LET cancelled ==
                 IF H.debounceTimer # 0
                 THEN [H EXCEPT !.timers = ClearTimeout(H.timers, H.debounceTimer),
                                !.debounceTimer = 0]
                 ELSE H
         IN  DoPush(cancelled, html, selection)
    ELSE LET cleared == IF H.debounceTimer # 0
                        THEN ClearTimeout(H.timers, H.debounceTimer)
                        ELSE H.timers
             id == NewTimerId(cleared, held)
         IN  [H EXCEPT !.timers = cleared \cup
                                      {DebounceTimeout(id, html, selection)},
                       !.debounceTimer = id]

\* undo that saves the snapshot it pops instead of the current state
UndoSavesPopped(H, currentHtml, currentSelection) ==
    IF Len(H.undoStack) = 0 THEN H
    ELSE [H EXCEPT !.redoStack = Append(H.redoStack, Last(H.undoStack)),
                   !.undoStack = Front(H.undoStack)]

\* undo(currentHtml, currentSelection): the manager afterwards
Undo(H, currentHtml, currentSelection) ==
    IF Len(H.undoStack) = 0 THEN H
    ELSE [H EXCEPT !.redoStack = Append(H.redoStack,
                           HistorySnapshot(currentHtml, currentSelection)),
                   !.undoStack = Front(H.undoStack)]

\* undo(currentHtml, currentSelection): the value returned
UndoResult(H) ==
    IF Len(H.undoStack) = 0 THEN Null ELSE Last(H.undoStack)

\* redo that pops the redo stack without saving the current state
RedoDropsCurrent(H, currentHtml, currentSelection) ==
    IF Len(H.redoStack) = 0 THEN H
    ELSE [H EXCEPT !.redoStack = Front(H.redoStack)]

\* redo(currentHtml, currentSelection): the manager afterwards
Redo(H, currentHtml, currentSelection) ==
    IF Len(H.redoStack) = 0 THEN H
    ELSE [H EXCEPT !.undoStack = Append(H.undoStack,
                           HistorySnapshot(currentHtml, currentSelection)),
                   !.redoStack = Front(H.redoStack)]

\* redo(currentHtml, currentSelection): the value returned
RedoResult(H) ==
    IF Len(H.redoStack) = 0 THEN Null ELSE Last(H.redoStack)

CanUndo(H) == Len(H.undoStack) > 0

CanRedo(H) == Len(H.redoStack) > 0

\* clear that leaves the pending timeout armed
ClearLeavesTimer(H) ==
    [H EXCEPT !.undoStack = <<>>,
              !.redoStack = <<>>,
              !.debounceTimer = 0]

Clear(H) ==
    [H EXCEPT !.undoStack = <<>>,
              !.redoStack = <<>>,
              !.timers = IF H.debounceTimer # 0
                         THEN ClearTimeout(H.timers, H.debounceTimer)
                         ELSE H.timers,
              !.debounceTimer = 0]

Lock(H) == [H EXCEPT !.locked = TRUE]

Unlock(H) == [H EXCEPT !.locked = FALSE]

\* write a manager state back to the variables
SetHistory(H) ==
    /\ undoStack' = H.undoStack
    /\ redoStack' = H.redoStack
    /\ debounceTimer' = H.debounceTimer
    /\ locked' = H.locked
    /\ maxSize' = H.maxSize
    /\ timers' = H.timers

\* ------------------------------------------------------------------------
\* Observation of the calls
\* ------------------------------------------------------------------------

\* a call whose doPush ran: an unlocked immediate push, or the timeout of a
\* debounced one (push leaves the lock as it found it)
IsCommit(call, isLocked) ==
    \/ call.op = "timer"
    \/ call.op = "push" /\ call.immediate /\ ~isLocked

\* what the call op(h, ..., imm) directly follows, when that matters:
\*   "undo"     a redo or a commit right after an undo that returned a snapshot
\*   "same"     a commit right after a commit of the same html
\*   "pending"  an unlocked push that found a debounce timeout pending
Follows(op, h, imm) ==
    IF /\ lastCall.op = "undo" /\ ret # Null
       /\ \/ op = "redo"
          \/ IsCommit([op |-> op, immediate |-> imm], locked)
    THEN "undo"
    ELSE IF /\ IsCommit([op |-> op, immediate |-> imm], locked)
            /\ IsCommit(lastCall, locked)
            /\ lastCall.html = h
    THEN "same"
    ELSE IF op = "push" /\ ~locked /\ debounceTimer \in TimerIds THEN "pending"
    ELSE IF op \in {"clear", "destroy"} /\ debounceTimer \in TimerIds
    THEN "pending"
    ELSE "none"

\* the record of a call: the operation, its arguments, what it follows
Call(op, h, s, imm) ==
    [op |-> op, html |-> h, selection |-> s, immediate |-> imm,
     follows |-> Follows(op, h, imm)]

\* ------------------------------------------------------------------------
\* Spec: a HistoryManager driven through its API
\* ------------------------------------------------------------------------

Init ==
    /\ undoStack = <<>>
    /\ redoStack = <<>>
    /\ debounceTimer = 0
    /\ locked = FALSE
    /\ maxSize = MaxSize
    /\ timers = {}
    /\ editable = 0
    /\ liveSelection = Null
    /\ uiTimer = 0
    /\ destroyed = FALSE
    /\ emitted = <<>>
    /\ lastCall = [op |-> "new", html |-> 0, selection |-> Null,
                   immediate |-> FALSE, follows |-> "none"]
    /\ ret = Null
    /\ replay = Null
    /\ pushLog = <<>>
    /\ tree = EmptyTree
    /\ saved = Null
    /\ NoHost

CallPush ==
    \E h \in Htmls, s \in Selections, imm \in BOOLEAN :
        /\ Cardinality(timers) < MaxTimers
        /\ SetHistory(Push(History, h, s, imm, {}))
        /\ lastCall' = Call("push", h, s, imm)
        /\ ret' = Null
        /\ UNCHANGED <<editorVars, replay, pushLog, domVars, hostVars>>

\* the runtime runs the timeout t armed by push
HistoryTimeout(t) ==
    /\ t \in timers
    /\ t.kind = "history"
    /\ SetHistory(DoPush([History EXCEPT !.timers = timers \ {t}],
                         t.html, t.selection))
    /\ lastCall' = Call("timer", t.html, t.selection, FALSE)
    /\ ret' = Null
    /\ emitted' = <<>>
    /\ UNCHANGED <<editable, liveSelection, uiTimer, destroyed, replay,
                   pushLog, domVars, hostVars>>

TimerFire == \E t \in timers : HistoryTimeout(t)

CallUndo ==
    \E h \in Htmls, s \in Selections :
        /\ SetHistory(Undo(History, h, s))
        /\ lastCall' = Call("undo", h, s, FALSE)
        /\ ret' = UndoResult(History)
        /\ UNCHANGED <<editorVars, replay, pushLog, domVars, hostVars>>

CallRedo ==
    \E h \in Htmls, s \in Selections :
        /\ SetHistory(Redo(History, h, s))
        /\ lastCall' = Call("redo", h, s, FALSE)
        /\ ret' = RedoResult(History)
        /\ UNCHANGED <<editorVars, replay, pushLog, domVars, hostVars>>

CallClear ==
    /\ SetHistory(Clear(History))
    /\ lastCall' = Call("clear", 0, Null, FALSE)
    /\ ret' = Null
    /\ UNCHANGED <<editorVars, replay, pushLog, domVars, hostVars>>

CallLock ==
    /\ SetHistory(Lock(History))
    /\ lastCall' = Call("lock", 0, Null, FALSE)
    /\ ret' = Null
    /\ UNCHANGED <<editorVars, replay, pushLog, domVars, hostVars>>

CallUnlock ==
    /\ SetHistory(Unlock(History))
    /\ lastCall' = Call("unlock", 0, Null, FALSE)
    /\ ret' = Null
    /\ UNCHANGED <<editorVars, replay, pushLog, domVars, hostVars>>

Next ==
    \/ CallPush
    \/ TimerFire
    \/ CallUndo
    \/ CallRedo
    \/ CallClear
    \/ CallLock
    \/ CallUnlock

Spec == Init /\ [][Next]_vars

\* ------------------------------------------------------------------------
\* The document and the selection, as the editor's commands use them
\* ------------------------------------------------------------------------

\* The content h stands for the document of h paragraphs holding one text
\* node of one character each; 0 is the empty document ''.  A node is named
\* by its position: <<>> the editable root, <<i>> paragraph i, <<i, 0>> its
\* text node.
Node(path) == [path |-> path, inEditor |-> TRUE]

\* a node of the page that is not under the editable root
OutsideNode == [path |-> <<>>, inEditor |-> FALSE]

\* node.childNodes.length in the document h
ChildCount(h, node) ==
    IF Len(node.path) = 0 THEN h
    ELSE IF Len(node.path) = 1 THEN 1
    ELSE 0

\* the largest offset a range boundary may take in the node: the number of
\* children of an element, the length of a text node
NodeLength(h, node) ==
    IF Len(node.path) = 2 THEN 1 ELSE ChildCount(h, node)

\* window.getSelection(): no range, or one range
NoRange == [rangeCount |-> 0]

Range(startContainer, startOffset, endContainer, endOffset) ==
    [rangeCount |-> 1,
     startContainer |-> startContainer, startOffset |-> startOffset,
     endContainer |-> endContainer, endOffset |-> endOffset]

\* the caret at the start of the (possibly empty) editable root
RootCaret == Range(Node(<<>>), 0, Node(<<>>), 0)

\* the caret after the character of the first paragraph
TextCaret == Range(Node(<<0, 0>>), 1, Node(<<0, 0>>), 1)

\* the caret at the start of a second text node of the first paragraph:
\* typing can leave adjacent text nodes, which the parse of innerHTML merges
SplitCaret == Range(Node(<<0, 1>>), 0, Node(<<0, 1>>), 0)

\* a selection in the page outside the editor
OutsideCaret == Range(OutsideNode, 0, OutsideNode, 0)

\* where typing in the document h leaves the caret
CaretIn(h) == IF h >= 1 THEN TextCaret ELSE RootCaret

\* SelectionManager.getNodePath
GetNodePath(node) == IF node.inEditor THEN node.path ELSE Null

\* SelectionManager.getNodeFromPath in the document h
RECURSIVE WalkPath(_, _, _)
WalkPath(h, node, path) ==
    IF path = <<>> THEN node
    ELSE IF Head(path) < 0 \/ Head(path) >= ChildCount(h, node) THEN Null
    ELSE WalkPath(h, Node(Append(node.path, Head(path))), Tail(path))

GetNodeFromPath(h, path) == WalkPath(h, Node(<<>>), path)

\* SelectionManager.serialize
Serialize(sel) ==
    IF sel.rangeCount = 0 THEN Null
    ELSE LET anchorPath == GetNodePath(sel.startContainer)
             focusPath == GetNodePath(sel.endContainer)
         IN  IF anchorPath = Null \/ focusPath = Null THEN Null
             ELSE [anchorPath |-> anchorPath, anchorOffset |-> sel.startOffset,
                   focusPath |-> focusPath, focusOffset |-> sel.endOffset]

\* SelectionManager.deserialize in the document h: the selection afterwards
Deserialize(h, sel, serialized) ==
    LET anchorNode == GetNodeFromPath(h, serialized.anchorPath)
        focusNode == GetNodeFromPath(h, serialized.focusPath)
    IN  IF anchorNode = Null \/ focusNode = Null THEN sel
        ELSE IF \/ serialized.anchorOffset > NodeLength(h, anchorNode)
                \/ serialized.focusOffset > NodeLength(h, focusNode)
        THEN sel    \* setStart / setEnd threw, caught by deserialize
        ELSE Range(anchorNode, serialized.anchorOffset,
                   focusNode, serialized.focusOffset)

\* the selection after editable.innerHTML has been assigned: the old children
\* are removed, so a range inside the editor collapses to the root
AfterReplaceChildren(sel) ==
    IF sel.rangeCount = 1 /\ sel.startContainer.inEditor THEN RootCaret
    ELSE sel

\* ------------------------------------------------------------------------
\* TinyTextEditor, as functions of the editor's state
\* ------------------------------------------------------------------------

\* the editor's fields together with its HistoryManager, at the start of a
\* step: nothing emitted yet
Editor ==
    [history |-> History, editable |-> editable,
     liveSelection |-> liveSelection, uiTimer |-> uiTimer,
     destroyed |-> destroyed, emitted |-> <<>>]

\* EventBus.emit(event, payload), as seen by the event's name
Emit(E, event) == [E EXCEPT !.emitted = Append(@, event)]

\* an undo / redo command whose deserialize lets the failure of a decode
\* escape: the command ends after the assignment to innerHTML
ReplayExecuteMissEscapes(E, id, throws) ==
    LET snapshot == IF id = "undo" THEN UndoResult(E.history)
                    ELSE RedoResult(E.history)
        popped == IF id = "undo"
                  THEN Undo(E.history, E.editable, Serialize(E.liveSelection))
                  ELSE Redo(E.history, E.editable, Serialize(E.liveSelection))
    IN  IF snapshot = Null THEN E
        ELSE IF throws THEN [E EXCEPT !.history = Lock(popped)]
        ELSE IF /\ snapshot.selection # Null
                /\ \/ GetNodeFromPath(snapshot.html,
                                       snapshot.selection.anchorPath) = Null
                   \/ GetNodeFromPath(snapshot.html,
                                       snapshot.selection.focusPath) = Null
        THEN [E EXCEPT !.history = Lock(popped),
                       !.editable = snapshot.html,
                       !.liveSelection = AfterReplaceChildren(@)]
        ELSE Emit([E EXCEPT
                    !.history = Unlock(Lock(popped)),
                    !.editable = snapshot.html,
                    !.liveSelection =
                        IF snapshot.selection # Null
                        THEN Deserialize(snapshot.html,
                                         AfterReplaceChildren(@),
                                         snapshot.selection)
                        ELSE AfterReplaceChildren(@)],
                  IF id = "undo" THEN "history:undo" ELSE "history:redo")

\* the undo / redo command, execute(): throws = the assignment to innerHTML
\* raises (the platform refuses the string)
ReplayExecute(E, id, throws) ==
    LET snapshot == IF id = "undo" THEN UndoResult(E.history)
                    ELSE RedoResult(E.history)
        popped == IF id = "undo"
                  THEN Undo(E.history, E.editable, Serialize(E.liveSelection))
                  ELSE Redo(E.history, E.editable, Serialize(E.liveSelection))
    IN  IF snapshot = Null THEN E
        ELSE IF throws THEN [E EXCEPT !.history = Lock(popped)]
        ELSE LET replaced == AfterReplaceChildren(E.liveSelection)
             IN  Emit([E EXCEPT
                    !.history = Unlock(Lock(popped)),
                    !.editable = snapshot.html,
                    !.liveSelection =
                        IF snapshot.selection # Null
                        THEN Deserialize(snapshot.html, replaced,
                                         snapshot.selection)
                        ELSE replaced],
                      IF id = "undo" THEN "history:undo" ELSE "history:redo")

\* isEnabled of the undo / redo command
ReplayEnabled(E, id) ==
    IF id = "undo" THEN CanUndo(E.history) ELSE CanRedo(E.history)

\* exec that skips isEnabled and runs a command that emits its event even
\* when it got no snapshot
CommandExecEmitsAlways(E, id, throws) ==
    Emit(ReplayExecute(E, id, throws),
         IF id = "undo" THEN "history:undo" ELSE "history:redo")

\* CommandManager.exec(id) for id in {undo, redo}; an exception of execute is
\* caught and logged, which leaves the state execute had reached
CommandExec(E, id, throws) ==
    IF ~ReplayEnabled(E, id) THEN E
    ELSE ReplayExecute(E, id, throws)

\* a change handler that emits without pushing to the history
OnContentChangeNoPush(E) ==
    IF E.destroyed THEN E ELSE Emit(E, "change")

\* TinyTextEditor._onContentChange (maxLength 0, the default)
OnContentChange(E) ==
    IF E.destroyed THEN E
    ELSE Emit([E EXCEPT !.history = Push(E.history, E.editable,
                                         Serialize(E.liveSelection), FALSE,
                                         {E.uiTimer})],
              "change")

\* TinyTextEditor.execCommand(id)
ExecCommand(E, id, throws) == OnContentChange(CommandExec(E, id, throws))

\* the pending timeout created by the debounced change handler
UiTimeout(id) ==
    [id |-> id, kind |-> "ui", html |-> 0, selection |-> Null,
     delay |-> UI_DEBOUNCE_MS]

\* debounce(fn, ms): one call of the debounced function
Debounced(E) ==
    LET cleared == ClearTimeout(E.history.timers, E.uiTimer)
        id == NewTimerId(cleared, {E.history.debounceTimer})
    IN  [E EXCEPT !.history.timers = cleared \cup {UiTimeout(id)},
                  !.uiTimer = id]

\* TinyTextEditor.destroy
Destroy(E) ==
    IF E.destroyed THEN E
    ELSE Emit([E EXCEPT !.destroyed = TRUE, !.history = Clear(E.history)],
              "destroy")

\* write an editor state back to the variables
SetEditor(E) ==
    /\ SetHistory(E.history)
    /\ editable' = E.editable
    /\ liveSelection' = E.liveSelection
    /\ uiTimer' = E.uiTimer
    /\ destroyed' = E.destroyed
    /\ emitted' = E.emitted

\* what the replay of command id, called through via, left: the size of the
\* undo stack, and the debounce timeouts armed before it that are still
\* pending when the call returns (E before, mid after the command).
\* editor.execCommand pushes after the command, which cancels them.
Replayed(id, via, E, mid) ==
    [id |-> id, via |-> via,
     undoCount |-> Len(mid.history.undoStack),
     timers |-> {t \in E.history.timers :
                     /\ t.kind = "history"
                     /\ t \in mid.history.timers
                     /\ \/ via = "editor"
                        \/ mid.destroyed
                        \/ mid.history.locked}]

\* ------------------------------------------------------------------------
\* SpecEditor: a live editor
\* ------------------------------------------------------------------------

\* the state the constructor leaves: the initial content h, one snapshot of
\* it pushed with immediate = true.  The capacity is MaxSize in place of
\* DEFAULT_MAX_SIZE.
InitEditor ==
    \E h \in Htmls :
        /\ undoStack = <<HistorySnapshot(h, Null)>>
        /\ redoStack = <<>>
        /\ debounceTimer = 0
        /\ locked = FALSE
        /\ maxSize = MaxSize
        /\ timers = {}
        /\ editable = h
        /\ liveSelection = NoRange
        /\ uiTimer = 0
        /\ destroyed = FALSE
        /\ emitted = <<>>
        /\ lastCall = [op |-> "new", html |-> h, selection |-> Null,
                       immediate |-> TRUE, follows |-> "none"]
        /\ ret = Null
        /\ replay = Null
        /\ pushLog = <<>>
        /\ tree = EmptyTree
        /\ saved = Null
        /\ NoHost

\* the user edits the document: an 'input' event reaches the debounced
\* change handler (destroy() removes the editor's element from the page)
Input ==
    \E h \in Htmls \ {editable} :
        /\ ~destroyed
        /\ Cardinality(timers) < MaxTimers
        /\ SetEditor(Debounced([Editor EXCEPT
               !.editable = h,
               !.liveSelection = CaretIn(h)]))
        /\ lastCall' = Call("input", h, Null, FALSE)
        /\ ret' = Null
        /\ replay' = Null
        /\ UNCHANGED <<pushLog, domVars, hostVars>>

\* the runtime runs the timeout of the debounced change handler
UiTimerFire ==
    \E t \in timers :
        /\ t.kind = "ui"
        /\ LET E == [Editor EXCEPT !.history.timers = timers \ {t}]
               after == OnContentChange(E)
           IN  /\ SetEditor(after)
               /\ replay' = IF replay = Null THEN Null
                            ELSE [replay EXCEPT !.timers =
                                     {x \in @ : x \in after.history.timers
                                                /\ after.history = E.history}]
        /\ lastCall' = Call("change", 0, Null, FALSE)
        /\ ret' = Null
        /\ UNCHANGED <<pushLog, domVars, hostVars>>

\* the observation of a command: a replay is recorded when the command
\* returned a snapshot and completed
ObserveCommand(id, via, throws, E, mid) ==
    /\ ret' = IF ~ReplayEnabled(E, id) THEN Null
              ELSE IF id = "undo" THEN UndoResult(E.history)
              ELSE RedoResult(E.history)
    /\ replay' = IF ReplayEnabled(E, id) /\ ~throws
                 THEN Replayed(id, via, E, mid)
                 ELSE Null

\* a keyboard shortcut or a toolbar button: editor.execCommand(id)
ExecCommandStep(id, throws) ==
    /\ Cardinality(timers) < MaxTimers
    /\ SetEditor(ExecCommand(Editor, id, throws))
    /\ ObserveCommand(id, "execCommand", throws, Editor,
                      CommandExec(Editor, id, throws))
    /\ lastCall' = Call("execCommand", 0, Null, throws)
    /\ UNCHANGED <<pushLog, domVars, hostVars>>

\* editor.undo() / editor.redo()
EditorReplayStep(id, throws) ==
    /\ SetEditor(CommandExec(Editor, id, throws))
    /\ ObserveCommand(id, "editor", throws, Editor,
                      CommandExec(Editor, id, throws))
    /\ lastCall' = Call("replay", 0, Null, throws)
    /\ UNCHANGED <<pushLog, domVars, hostVars>>

\* the host application disposes of the editor: editor.destroy()
DestroyStep ==
    /\ SetEditor(Destroy(Editor))
    /\ lastCall' = Call("destroy", 0, Null, FALSE)
    /\ ret' = Null
    /\ replay' = Null
    /\ UNCHANGED <<pushLog, domVars, hostVars>>

ExecCommandUndo == ExecCommandStep("undo", FALSE)

ExecCommandRedo == ExecCommandStep("redo", FALSE)

EditorUndo == EditorReplayStep("undo", FALSE)

EditorRedo == EditorReplayStep("redo", FALSE)

NextEditor ==
    \/ Input
    \/ UiTimerFire
    \/ TimerFire
    \/ ExecCommandUndo
    \/ ExecCommandRedo
    \/ EditorUndo
    \/ EditorRedo
    \/ DestroyStep

SpecEditor == InitEditor /\ [][NextEditor]_vars

\* ------------------------------------------------------------------------
\* SpecFault: a live editor on a platform where assigning innerHTML can raise
\* ------------------------------------------------------------------------

ExecCommandUndoThrows == ExecCommandStep("undo", TRUE)

ExecCommandRedoThrows == ExecCommandStep("redo", TRUE)

EditorUndoThrows == EditorReplayStep("undo", TRUE)

EditorRedoThrows == EditorReplayStep("redo", TRUE)

NextFault ==
    \/ NextEditor
    \/ ExecCommandUndoThrows
    \/ ExecCommandRedoThrows
    \/ EditorUndoThrows
    \/ EditorRedoThrows

SpecFault == InitEditor /\ [][NextFault]_vars

\* ------------------------------------------------------------------------
\* SpecLive: a live editor whose timeouts the runtime eventually runs
\* ------------------------------------------------------------------------

\* the user or the host undoes while there is something to undo
LiveExecCommandUndo == ReplayEnabled(Editor, "undo") /\ ExecCommandUndo

LiveEditorUndo == ReplayEnabled(Editor, "undo") /\ EditorUndo

NextLive ==
    \/ Input
    \/ UiTimerFire
    \/ TimerFire
    \/ LiveExecCommandUndo
    \/ LiveEditorUndo

\* setTimeout: a timeout that stays pending is run
SpecLive ==
    /\ InitEditor
    /\ [][NextLive]_vars
    /\ WF_vars(UiTimerFire)
    /\ WF_vars(TimerFire)

\* ------------------------------------------------------------------------
\* SpecMiss: a live editor whose typing can split a text node
\* ------------------------------------------------------------------------

\* the user edits; typing into the first paragraph leaves the caret in a
\* second text node of it
InputSplit ==
    \E h \in Htmls \ {editable} :
        /\ ~destroyed
        /\ Cardinality(timers) < MaxTimers
        /\ SetEditor(Debounced([Editor EXCEPT
               !.editable = h,
               !.liveSelection = IF h >= 1 THEN SplitCaret
                                 ELSE RootCaret]))
        /\ lastCall' = Call("input", h, Null, FALSE)
        /\ ret' = Null
        /\ replay' = Null
        /\ UNCHANGED <<pushLog, domVars, hostVars>>

NextMiss ==
    \/ InputSplit
    \/ UiTimerFire
    \/ TimerFire
    \/ ExecCommandUndo
    \/ ExecCommandRedo
    \/ EditorUndo
    \/ EditorRedo
    \/ DestroyStep

SpecMiss == InitEditor /\ [][NextMiss]_vars

\* ------------------------------------------------------------------------
\* SpecEvict: pairwise distinct contents pushed into a new HistoryManager
\* ------------------------------------------------------------------------

\* the contents of a scripted run on a manager of capacity n: opaque strings,
\* numbered; not interpreted as documents
Contents(n) == 1..(n + 5)

\* the last n elements of a sequence (all of it when it is shorter)
LastN(seq, n) ==
    IF Len(seq) <= n THEN seq ELSE SubSeq(seq, Len(seq) - n + 1, Len(seq))

\* new HistoryManager(n), nothing called yet
NewHistory(n) ==
    /\ undoStack = <<>>
    /\ redoStack = <<>>
    /\ debounceTimer = 0
    /\ locked = FALSE
    /\ maxSize = n
    /\ timers = {}
    /\ editable = 0
    /\ liveSelection = Null
    /\ uiTimer = 0
    /\ destroyed = FALSE
    /\ emitted = <<>>
    /\ lastCall = [op |-> "new", html |-> 0, selection |-> Null,
                   immediate |-> FALSE, follows |-> "none"]
    /\ ret = Null
    /\ replay = Null
    /\ pushLog = <<>>
    /\ tree = EmptyTree
    /\ saved = Null
    /\ NoHost

InitEvict == \E n \in 1..MaxCapacity : NewHistory(n)

\* push(h, s, true) of a content h that no earlier call pushed
PushDistinct ==
    \E h \in Contents(maxSize) \ Range1(pushLog), s \in Selections :
        /\ lastCall.op \in {"new", "push"}
        /\ SetHistory(Push(History, h, s, TRUE, {}))
        /\ lastCall' = Call("push", h, s, TRUE)
        /\ ret' = Null
        /\ pushLog' = Append(pushLog, h)
        /\ UNCHANGED <<editorVars, replay, domVars, hostVars>>

NextEvict == PushDistinct

SpecEvict == InitEvict /\ [][NextEvict]_vars

\* ------------------------------------------------------------------------
\* SpecTrace: distinct pushes, then one undo and the redo of it
\* ------------------------------------------------------------------------

\* the contents of a trace on a manager of capacity n: n + 1 to push and one
\* more for the editor to hold at the undo (A .. E for n = 3)
TraceContents(n) == 1..(n + 2)

InitTrace == \E n \in 1..TraceCapacity : NewHistory(n)

\* push(h, s, true) of a content h that no earlier call pushed
TracePush ==
    \E h \in TraceContents(maxSize) \ Range1(pushLog), s \in Selections :
        /\ lastCall.op \in {"new", "push"}
        /\ SetHistory(Push(History, h, s, TRUE, {}))
        /\ lastCall' = Call("push", h, s, TRUE)
        /\ ret' = Null
        /\ pushLog' = Append(pushLog, h)
        /\ UNCHANGED <<editorVars, replay, domVars, hostVars>>

\* undo(h, null) with a current content h that was never pushed
TraceUndo ==
    \E h \in TraceContents(maxSize) \ Range1(pushLog) :
        /\ lastCall.op = "push"
        /\ SetHistory(Undo(History, h, Null))
        /\ lastCall' = Call("undo", h, Null, FALSE)
        /\ ret' = UndoResult(History)
        /\ UNCHANGED <<editorVars, replay, pushLog, domVars, hostVars>>

\* redo(h, null) with the current content h that the undo returned
TraceRedo ==
    /\ lastCall.op = "undo"
    /\ ret # Null
    /\ SetHistory(Redo(History, ret.html, Null))
    /\ lastCall' = Call("redo", ret.html, Null, FALSE)
    /\ ret' = RedoResult(History)
    /\ UNCHANGED <<editorVars, replay, pushLog, domVars, hostVars>>

NextTrace ==
    \/ TracePush
    \/ TraceUndo
    \/ TraceRedo

SpecTrace == InitTrace /\ [][NextTrace]_vars

\* ------------------------------------------------------------------------
\* SelectionManager on a DOM tree
\* ------------------------------------------------------------------------

\* node.parentNode in the tree T
ParentNode(T, node) ==
    IF \E p \in DOMAIN T : node \in Range1(T[p].childNodes)
    THEN CHOOSE p \in DOMAIN T : node \in Range1(T[p].childNodes)
    ELSE NoNode

\* an indexOf that counts from one
IndexOfOneBased(childNodes, node) ==
    CHOOSE i \in 1..Len(childNodes) : childNodes[i] = node

\* Array.from(childNodes).indexOf(node), for a node among them
IndexOf(childNodes, node) ==
    (CHOOSE i \in 1..Len(childNodes) : childNodes[i] = node) - 1

\* the null of a path-valued result: no path holds a negative index
NoPath == <<-1>>

\* SelectionManager.getNodePath: the child indices from the root down to the
\* node, NoPath when the parent chain ends before the root
RECURSIVE GetNodePathOf(_, _)
GetNodePathOf(T, node) ==
    IF node = Root THEN <<>>
    ELSE LET parentNode == ParentNode(T, node)
         IN  IF parentNode = NoNode THEN NoPath
             ELSE LET path == GetNodePathOf(T, parentNode)
                  IN  IF path = NoPath THEN NoPath
                      ELSE Append(path,
                                  IndexOf(T[parentNode].childNodes, node))

\* SelectionManager.getNodeFromPath: the loop over the indices of the path
RECURSIVE WalkFrom(_, _, _)
WalkFrom(T, node, path) ==
    IF path = <<>> THEN node
    ELSE IF Head(path) + 1 \notin 1..Len(T[node].childNodes) THEN NoNode
    ELSE WalkFrom(T, T[node].childNodes[Head(path) + 1], Tail(path))

GetNodeFromPathOf(T, path) == WalkFrom(T, Root, path)

\* the nodes whose parent chain reaches the root, the root included
UnderRoot(T) == {node \in DOMAIN T : GetNodePathOf(T, node) # NoPath}

\* the largest offset Range.setStart / setEnd accept in a node
NodeLengthOf(T, node) ==
    IF T[node].isText THEN T[node].length ELSE Len(T[node].childNodes)

\* the boundary point (pa, oa) comes after (pb, ob) in tree order, the
\* points given by the paths of their nodes
RECURSIVE PointAfter(_, _, _, _)
PointAfter(pa, oa, pb, ob) ==
    IF pa = <<>> /\ pb = <<>> THEN oa > ob
    ELSE IF pa = <<>> THEN oa > Head(pb)
    ELSE IF pb = <<>> THEN Head(pa) >= ob
    ELSE IF Head(pa) # Head(pb) THEN Head(pa) > Head(pb)
    ELSE PointAfter(Tail(pa), oa, Tail(pb), ob)

\* a serialize that takes both ends from the start of the range
SerializeOfStartOnly(T, sel) ==
    IF sel.rangeCount = 0 THEN Null
    ELSE LET anchorPath == GetNodePathOf(T, sel.startContainer)
         IN  IF anchorPath = NoPath THEN Null
             ELSE [anchorPath |-> anchorPath, anchorOffset |-> sel.startOffset,
                   focusPath |-> anchorPath, focusOffset |-> sel.startOffset]

\* SelectionManager.serialize of the live selection sel
SerializeOf(T, sel) ==
    IF sel.rangeCount = 0 THEN Null
    ELSE LET anchorPath == GetNodePathOf(T, sel.startContainer)
             focusPath == GetNodePathOf(T, sel.endContainer)
         IN  IF anchorPath = NoPath \/ focusPath = NoPath THEN Null
             ELSE [anchorPath |-> anchorPath, anchorOffset |-> sel.startOffset,
                   focusPath |-> focusPath, focusOffset |-> sel.endOffset]

\* a deserialize that goes on with the anchor alone when the focus is missing
DeserializeOfAnchorOnly(T, sel, serialized) ==
    LET anchorNode == GetNodeFromPathOf(T, serialized.anchorPath)
    IN  IF anchorNode = NoNode THEN sel
        ELSE IF serialized.anchorOffset > NodeLengthOf(T, anchorNode) THEN sel
        ELSE Range(anchorNode, serialized.anchorOffset,
                   anchorNode, serialized.anchorOffset)

\* SelectionManager.deserialize: the live selection afterwards.  setStart and
\* setEnd throw for an offset past the node's length, which deserialize
\* catches before it has touched the selection; setEnd with a focus before
\* the anchor collapses the range to the focus.
DeserializeOf(T, sel, serialized) ==
    LET anchorNode == GetNodeFromPathOf(T, serialized.anchorPath)
        focusNode == GetNodeFromPathOf(T, serialized.focusPath)
    IN  IF anchorNode = NoNode \/ focusNode = NoNode THEN sel
        ELSE IF \/ serialized.anchorOffset > NodeLengthOf(T, anchorNode)
                \/ serialized.focusOffset > NodeLengthOf(T, focusNode)
        THEN sel
        ELSE IF PointAfter(serialized.anchorPath, serialized.anchorOffset,
                           serialized.focusPath, serialized.focusOffset)
        THEN Range(focusNode, serialized.focusOffset,
                   focusNode, serialized.focusOffset)
        ELSE Range(anchorNode, serialized.anchorOffset,
                   focusNode, serialized.focusOffset)

\* ------------------------------------------------------------------------
\* The platform: tree mutations and what they do to the live range
\* ------------------------------------------------------------------------

\* node is ancestor, or is c itself
RECURSIVE Contains(_, _, _)
Contains(T, node, c) ==
    IF c = node THEN TRUE
    ELSE IF ParentNode(T, c) = NoNode THEN FALSE
    ELSE Contains(T, node, ParentNode(T, c))

InsertAt(seq, index, x) ==
    SubSeq(seq, 1, index) \o <<x>> \o SubSeq(seq, index + 1, Len(seq))

RemoveAt(seq, index) ==
    SubSeq(seq, 1, index) \o SubSeq(seq, index + 2, Len(seq))

\* parent.insertBefore(node, parent.childNodes[index]) of a new node
InsertBefore(T, parent, index, node, content) ==
    (node :> content) @@
    [T EXCEPT ![parent].childNodes = InsertAt(@, index, node)]

\* node.parentNode.removeChild(node): the subtree stays, detached
RemoveChild(T, node) ==
    LET parent == ParentNode(T, node)
    IN  [T EXCEPT ![parent].childNodes =
                      RemoveAt(@, IndexOf(T[parent].childNodes, node))]

\* a boundary point (c, o) of a live range after the insertion
PointAfterInsert(c, o, parent, index) ==
    IF c = parent /\ o > index THEN <<c, o + 1>> ELSE <<c, o>>

\* a boundary point (c, o) of a live range after the removal of node, which
\* was child number index of parent in T
PointAfterRemove(T, c, o, node, parent, index) ==
    IF Contains(T, node, c) THEN <<parent, index>>
    ELSE IF c = parent /\ o > index THEN <<c, o - 1>>
    ELSE <<c, o>>

SelectionAfterInsert(sel, parent, index) ==
    IF sel.rangeCount = 0 THEN sel
    ELSE LET start == PointAfterInsert(sel.startContainer, sel.startOffset,
                                       parent, index)
             end == PointAfterInsert(sel.endContainer, sel.endOffset,
                                     parent, index)
         IN  Range(start[1], start[2], end[1], end[2])

SelectionAfterRemove(T, sel, node) ==
    IF sel.rangeCount = 0 THEN sel
    ELSE LET parent == ParentNode(T, node)
             index == IndexOf(T[parent].childNodes, node)
             start == PointAfterRemove(T, sel.startContainer, sel.startOffset,
                                       node, parent, index)
             end == PointAfterRemove(T, sel.endContainer, sel.endOffset,
                                     node, parent, index)
         IN  Range(start[1], start[2], end[1], end[2])

\* the boundary points of the tree: a node and an offset into it
Points(T, nodes) ==
    {<<node, o>> : node \in nodes, o \in 0..MaxNodes} \cap
    {pt \in (DOMAIN T) \X (0..MaxNodes) : pt[2] <= NodeLengthOf(T, pt[1])}

\* the selections a user can make: a caret anywhere in the page, or a range
\* inside the editor from the start of a node to a later point
UserSelections(T) ==
    {Range(pt[1], pt[2], pt[1], pt[2]) : pt \in Points(T, DOMAIN T)}
    \cup
    {Range(ab[1][1], ab[1][2], ab[2][1], ab[2][2]) :
        ab \in {pq \in Points(T, UnderRoot(T)) \X Points(T, UnderRoot(T)) :
                   /\ pq[1][2] = 0
                   /\ PointAfter(GetNodePathOf(T, pq[2][1]), pq[2][2],
                                 GetNodePathOf(T, pq[1][1]), pq[1][2])}}

\* the paths a caller can pass to getNodeFromPath
Paths ==
    UNION {[1..n -> 0..(MaxNodes - 2)] : n \in 0..(MaxNodes - 1)}

\* ------------------------------------------------------------------------
\* SpecTree: SelectionManager on a tree that scripts mutate
\* ------------------------------------------------------------------------

\* the part of the state a SelectionManager does not touch
NoEditor ==
    /\ undoStack = <<>>
    /\ redoStack = <<>>
    /\ debounceTimer = 0
    /\ locked = FALSE
    /\ maxSize = MaxSize
    /\ timers = {}
    /\ editable = 0
    /\ uiTimer = 0
    /\ destroyed = FALSE
    /\ emitted = <<>>
    /\ replay = Null
    /\ pushLog = <<>>
    /\ NoHost

noEditorVars ==
    <<undoStack, redoStack, debounceTimer, locked, maxSize, timers, editable,
      uiTimer, destroyed, emitted, replay, pushLog, hostVars>>

InitTree ==
    /\ NoEditor
    /\ tree = EmptyTree
    /\ liveSelection = NoRange
    /\ saved = Null
    /\ ret = Null
    /\ lastCall = [op |-> "new"]

\* a script inserts a new element or text node
InsertNode ==
    \E parent \in DOMAIN tree, isText \in BOOLEAN :
        \E index \in 0..Len(tree[parent].childNodes) :
            /\ ~tree[parent].isText
            /\ Cardinality(DOMAIN tree) < MaxNodes
            /\ tree' = InsertBefore(tree, parent, index,
                                    Cardinality(DOMAIN tree),
                                    IF isText THEN TextNode(1)
                                    ELSE ElementNode(<<>>))
            /\ liveSelection' = SelectionAfterInsert(liveSelection, parent,
                                                     index)
            /\ lastCall' = [op |-> "dom"]
            /\ ret' = Null
            /\ UNCHANGED <<noEditorVars, saved>>

\* a script removes a node
RemoveNode ==
    \E node \in DOMAIN tree :
        /\ ParentNode(tree, node) # NoNode
        /\ tree' = RemoveChild(tree, node)
        /\ liveSelection' = SelectionAfterRemove(tree, liveSelection, node)
        /\ lastCall' = [op |-> "dom"]
        /\ ret' = Null
        /\ UNCHANGED <<noEditorVars, saved>>

\* the user selects
Select ==
    \E sel \in UserSelections(tree) :
        /\ liveSelection' = sel
        /\ lastCall' = [op |-> "dom"]
        /\ ret' = Null
        /\ UNCHANGED <<noEditorVars, tree, saved>>

GetNodePathStep ==
    \E node \in DOMAIN tree :
        /\ ret' = [path |-> GetNodePathOf(tree, node)]
        /\ lastCall' = [op |-> "getNodePath", node |-> node]
        /\ UNCHANGED <<noEditorVars, tree, liveSelection, saved>>

\* encoded is the node whose path the caller passes on, when the path is the
\* result of the getNodePath call just before
GetNodeFromPathStep ==
    \E path \in Paths :
        /\ ret' = [node |-> GetNodeFromPathOf(tree, path)]
        /\ lastCall' = [op |-> "getNodeFromPath", path |-> path,
                        encoded |-> IF /\ lastCall.op = "getNodePath"
                                       /\ ret.path = path
                                    THEN lastCall.node ELSE NoNode]
        /\ UNCHANGED <<noEditorVars, tree, liveSelection, saved>>

SerializeStep ==
    /\ saved' = SerializeOf(tree, liveSelection)
    /\ lastCall' = [op |-> "serialize"]
    /\ ret' = Null
    /\ UNCHANGED <<noEditorVars, tree, liveSelection>>

DeserializeStep ==
    /\ saved # Null
    /\ liveSelection' = DeserializeOf(tree, liveSelection, saved)
    /\ lastCall' = [op |-> "deserialize"]
    /\ ret' = Null
    /\ UNCHANGED <<noEditorVars, tree, saved>>

NextTree ==
    \/ InsertNode
    \/ RemoveNode
    \/ Select
    \/ SerializeStep
    \/ DeserializeStep

SpecTree == InitTree /\ [][NextTree]_vars

\* ------------------------------------------------------------------------
\* SpecPath: the path helpers on a tree that scripts mutate
\* ------------------------------------------------------------------------

NextPath ==
    \/ InsertNode
    \/ RemoveNode
    \/ GetNodePathStep
    \/ GetNodeFromPathStep

SpecPath == InitTree /\ [][NextPath]_vars

\* ------------------------------------------------------------------------
\* Properties of a HistoryManager (specification Spec)
\* ------------------------------------------------------------------------

HistoryTimers == {t \in timers : t.kind = "history"}

\* C1: undo(c, s) followed immediately by redo(c', s') returns from redo a
\* snapshot whose content is c and whose selection is s, whatever the depth
\* of the undo stack (>= 1) and whatever c, s, c', s'.
UndoThenRedoRestores ==
    [][(lastCall.op = "undo" /\ ret # Null /\ lastCall'.op = "redo")
        => /\ ret' # Null
           /\ ret'.html = lastCall.html
           /\ ret'.selection = lastCall.selection]_vars

\* a redo right after an undo taken at depth 2, returning content other than
\* the content the redo was called with
UndoThenRedoWitness ==
    /\ lastCall.op = "redo"
    /\ lastCall.follows = "undo"
    /\ ret # Null
    /\ ret.html # lastCall.html
    /\ ret.selection # lastCall.selection
    /\ Len(undoStack) = 2

\* C3: the undo stack never holds more than maxSize snapshots.
UndoStackBounded == Len(undoStack) <= maxSize

\* a redo has just appended to an undo stack that is now full
UndoStackFullWitness ==
    /\ Len(undoStack) = maxSize
    /\ lastCall.op = "redo"
    /\ ret # Null

\* C4 as stated: once an unlocked push has taken effect (immediately, or when
\* its timeout fires), canRedo() is false.
PushAlwaysEmptiesRedo ==
    IsCommit(lastCall, locked) => ~CanRedo(History)

\* C4 amended: a push that takes effect with content other than that of the
\* top of the undo stack (or on an empty undo stack) leaves canRedo() false;
\* one whose content equals the top's is skipped and changes neither stack.
PushOfNewContentEmptiesRedo ==
    [][IsCommit(lastCall', locked)
        => IF undoStack = <<>> \/ Last(undoStack).html # lastCall'.html
           THEN ~CanRedo(History')
           ELSE undoStack' = undoStack /\ redoStack' = redoStack]_vars

\* a commit right after an undo (so the redo stack was not empty) has emptied
\* the redo stack
PushEmptiesRedoWitness ==
    /\ IsCommit(lastCall, locked)
    /\ lastCall.follows = "undo"
    /\ ~CanRedo(History)
    /\ Last(undoStack) = HistorySnapshot(lastCall.html, lastCall.selection)

\* C5: a push made while the lock is set changes neither stack nor the
\* pending debounce timeout, for immediate = true and immediate = false.
LockedPushHasNoEffect ==
    [][(lastCall'.op = "push" /\ locked)
        => UNCHANGED <<undoStack, redoStack, debounceTimer, timers, locked,
                       maxSize>>]_vars

\* an immediate push of new content was made under the lock while a debounce
\* timeout was pending and the redo stack was not empty
LockedPushWitness ==
    /\ lastCall.op = "push"
    /\ lastCall.immediate
    /\ locked
    /\ HistoryTimers # {}
    /\ CanRedo(History)
    /\ CanUndo(History)
    /\ Last(undoStack).html # lastCall.html

DebounceLastWins ==
    [][/\ Cardinality(HistoryTimers') <= 1
       /\ (lastCall'.op = "push" /\ ~lastCall'.immediate /\ ~locked)
           => HistoryTimers' = {DebounceTimeout(debounceTimer', lastCall'.html,
                                                lastCall'.selection)}
       /\ (/\ lastCall.op = "push" /\ ~lastCall.immediate /\ ~locked
           /\ lastCall'.op = "timer")
           => /\ lastCall'.html = lastCall.html
              /\ lastCall'.selection = lastCall.selection
              /\ HistoryTimers' = {}
              /\ \/ undoStack' = undoStack
                 \/ /\ Len(undoStack') <= Len(undoStack) + 1
                    /\ Last(undoStack') = HistorySnapshot(lastCall.html,
                                                          lastCall.selection)
      ]_vars

\* a non-immediate push superseded the pending timeout of an earlier one: the
\* only history timeout left is its own
DebounceBurstWitness ==
    /\ lastCall.op = "push"
    /\ ~lastCall.immediate
    /\ lastCall.follows = "pending"
    /\ HistoryTimers = {DebounceTimeout(debounceTimer, lastCall.html,
                                        lastCall.selection)}

\* C10: when an unlocked push with immediate = true returns, its content is
\* on top of the undo stack and no debounce timeout is pending, so the
\* content of a cancelled debounced push cannot be committed later.
ImmediatePushCommits ==
    (lastCall.op = "push" /\ lastCall.immediate /\ ~locked)
        => /\ undoStack # <<>>
           /\ Last(undoStack).html = lastCall.html
           /\ HistoryTimers = {}
           /\ debounceTimer = 0

\* an immediate push found a debounce timeout pending and cancelled it
ImmediatePushWitness ==
    /\ lastCall.op = "push"
    /\ lastCall.immediate
    /\ ~locked
    /\ lastCall.follows = "pending"
    /\ HistoryTimers = {}
    /\ Last(undoStack) = HistorySnapshot(lastCall.html, lastCall.selection)

\* C11: clear() leaves both stacks empty and no debounce timeout pending,
\* whether or not one was pending, and destroy() does the same through
\* clear(); from such a state the stacks stay empty through every step that
\* calls no push, and on a destroyed editor no step calls push: the callback
\* of a UI debounce that was pending at destroy() commits nothing.
Emptied ==
    /\ undoStack = <<>>
    /\ redoStack = <<>>
    /\ HistoryTimers = {}

PushCalled ==
    \/ lastCall'.op = "push"
    \/ ~destroyed /\ lastCall'.op \in {"change", "execCommand"}

ClearCancelsPending ==
    [][/\ lastCall'.op \in {"clear", "destroy"} => Emptied'
       /\ (Emptied /\ ~PushCalled) => Emptied'
      ]_vars

\* destroy() has just run with a history debounce pending, which it
\* cancelled, and a UI debounce pending, which is still to fire
DestroyWithPendingWitness ==
    /\ lastCall.op = "destroy"
    /\ lastCall.follows = "pending"
    /\ destroyed
    /\ \E t \in timers : t.kind = "ui"

\* ------------------------------------------------------------------------
\* Properties of scripted runs (specifications SpecEvict and SpecTrace)
\* ------------------------------------------------------------------------

\* the contents of the undo stack, bottom first
UndoContents == [i \in 1..Len(undoStack) |-> undoStack[i].html]

\* C12: on a new HistoryManager of capacity N, after immediate pushes of
\* pairwise distinct contents the undo stack holds the last N contents pushed,
\* in push order (all of them while fewer than N were pushed); after N + 5
\* pushes it holds exactly N entries, the 5 oldest evicted first-in first-out.
EvictionIsOldestFirst ==
    /\ UndoContents = LastN(pushLog, maxSize)
    /\ Len(pushLog) = maxSize + 5 => Len(undoStack) = maxSize

\* N + 5 distinct contents have been pushed
EvictedFiveWitness ==
    /\ Len(pushLog) = maxSize + 5
    /\ Len(undoStack) = maxSize
    /\ UndoContents = SubSeq(pushLog, 6, maxSize + 5)

\* C13: on a new HistoryManager of capacity N (3 in the trace of the
\* specification), N + 1 immediate pushes of distinct contents (A, B, C, D)
\* leave the undo stack holding the last N (B, C, D); undo(E, null) then
\* returns the snapshot of the last push (D) and leaves the undo stack without
\* it (B, C) and the redo stack holding E alone; redo(D, null) then returns
\* the snapshot E and leaves the undo stack B, C, D and the redo stack empty.
TraceUndoRedo ==
    [][/\ (lastCall'.op = "push" /\ Len(pushLog') = maxSize + 1)
            => /\ UndoContents' = Tail(pushLog')
               /\ redoStack' = <<>>
       /\ (lastCall'.op = "undo" /\ Len(pushLog) = maxSize + 1)
            => /\ ret' # Null
               /\ ret'.html = Last(pushLog)
               /\ UndoContents' = Front(Tail(pushLog))
               /\ redoStack' = <<HistorySnapshot(lastCall'.html, Null)>>
       /\ (lastCall'.op = "redo" /\ Len(pushLog) = maxSize + 1)
            => /\ ret' = HistorySnapshot(lastCall.html, Null)
               /\ lastCall'.html = Last(pushLog)
               /\ UndoContents' = Tail(pushLog)
               /\ redoStack' = <<>>
      ]_vars

\* the end of the trace with N = 3: A, B, C, D pushed, E undone and redone
TraceUndoRedoWitness ==
    /\ maxSize = 3
    /\ Len(pushLog) = 4
    /\ lastCall.op = "redo"
    /\ ret # Null
    /\ ret.html \notin Range1(pushLog)
    /\ Len(undoStack) = 3
    /\ redoStack = <<>>

\* ------------------------------------------------------------------------
\* Properties of a live editor (specifications SpecEditor and SpecFault)
\* ------------------------------------------------------------------------

\* C2: after the undo command has been run through editor.execCommand and no
\* user input has followed, once every pending timeout has fired the undo
\* stack has gained no entry and canRedo() is still true: the replay is not
\* recorded as a new snapshot.
ExecUndoNotRecorded ==
    (/\ replay # Null
     /\ replay.id = "undo"
     /\ replay.via = "execCommand"
     /\ timers = {})
        => /\ Len(undoStack) <= replay.undoCount
           /\ CanRedo(History)

\* C6: a debounced push that was pending when an undo or redo command
\* replayed a snapshot does not commit after the replay: when its timeout
\* fires, nothing is appended to the undo stack and the redo stack is not
\* cleared.
NoStaleCommitAfterReplay ==
    [][(/\ replay # Null
        /\ replay.timers \cap timers # {}
        /\ lastCall'.op = "timer")
        => /\ undoStack' = undoStack
           /\ redoStack' = redoStack]_vars

\* C7: when an undo or redo command has finished, normally or by an
\* exception that CommandManager.exec swallowed, the lock flag is clear.
LockReleasedAfterReplay ==
    lastCall.op \in {"execCommand", "replay"} => ~locked

Paragraph(i) == i
TextOf(i) == DocParagraphs + i

\* <p>abc</p> ... <p>abc</p> in the editable root
Document ==
    [node \in 0..(2 * DocParagraphs) |->
        IF node = Root
        THEN ElementNode([i \in 1..DocParagraphs |-> Paragraph(i)])
        ELSE IF node <= DocParagraphs THEN ElementNode(<<TextOf(node)>>)
        ELSE TextNode(ParagraphLength)]

InitDoc ==
    /\ NoEditor
    /\ tree = Document
    /\ liveSelection = NoRange
    /\ saved = Null
    /\ ret = Null
    /\ lastCall = [op |-> "new"]

\* the user puts the caret into the text of a paragraph
PlaceCaret ==
    \E i \in 1..DocParagraphs, o \in 0..ParagraphLength :
        /\ Contains(tree, Root, TextOf(i))
        /\ liveSelection' = Range(TextOf(i), o, TextOf(i), o)
        /\ lastCall' = [op |-> "dom"]
        /\ ret' = Null
        /\ UNCHANGED <<noEditorVars, tree, saved>>

\* the selection is captured while the document is as loaded
Capture ==
    /\ tree = Document
    /\ SerializeStep

\* a script deletes a paragraph
DeleteParagraph ==
    \E i \in 1..DocParagraphs :
        /\ ParentNode(tree, Paragraph(i)) = Root
        /\ tree' = RemoveChild(tree, Paragraph(i))
        /\ liveSelection' = SelectionAfterRemove(tree, liveSelection,
                                                 Paragraph(i))
        /\ lastCall' = [op |-> "dom"]
        /\ ret' = Null
        /\ UNCHANGED <<noEditorVars, saved>>

NextDoc ==
    \/ PlaceCaret
    \/ Capture
    \/ DeleteParagraph
    \/ DeserializeStep

SpecDoc == InitDoc /\ [][NextDoc]_vars

\* ------------------------------------------------------------------------
\* Properties of the path helpers and of selection serialization
\* ------------------------------------------------------------------------

\* C15: path round-trip law.  For every tree and every node that is the root
\* or a descendant of the root, getNodePath gives a path, and getNodeFromPath
\* of that path, on the tree as it was when the path was taken, is the node
\* itself.
PathRoundTrip ==
    /\ (lastCall.op = "getNodePath" /\ Contains(tree, Root, lastCall.node))
            => ret.path # NoPath
    /\ (lastCall.op = "getNodeFromPath" /\ lastCall.encoded # NoNode)
            => ret.node = lastCall.encoded

\* a node two levels below the root has been encoded and decoded again
PathRoundTripWitness ==
    /\ lastCall.op = "getNodeFromPath"
    /\ lastCall.encoded # NoNode
    /\ Len(lastCall.path) = 2
    /\ ret.node = lastCall.encoded

\* the caret at offset 2 in the text of the 3rd paragraph, as serialized
CaretInThird ==
    [anchorPath |-> <<2, 0>>, anchorOffset |-> 2,
     focusPath |-> <<2, 0>>, focusOffset |-> 2]

\* C16: a stale address is never resolved to the wrong text.  With the
\* selection captured at offset 2 inside the 3rd paragraph of the document
\* as loaded, a deserialize after the 1st paragraph has been deleted leaves
\* the live selection unchanged.
StaleAddressFails ==
    [][(/\ lastCall'.op = "deserialize"
        /\ saved = CaretInThird
        /\ tree = RemoveChild(Document, Paragraph(1)))
            => liveSelection' = liveSelection
      ]_vars

\* some index of the path is out of range for the children of the node that
\* the indices before it lead to
OutOfRange(T, path) ==
    \E k \in 1..Len(path) :
        LET reached == GetNodeFromPathOf(T, SubSeq(path, 1, k - 1))
        IN  /\ reached # NoNode
            /\ path[k] \notin 0..(Len(T[reached].childNodes) - 1)

\* C17: decoding a path gives null exactly when one of its indices is out of
\* range for the children of the node reached so far; a deserialize whose
\* anchor path or focus path fails to decode leaves the live selection as it
\* was; and no deserialize changes the tree.
DecodeMissIsNoOp ==
    [][lastCall'.op = "deserialize"
         => /\ tree' = tree
            /\ \A path \in {saved.anchorPath, saved.focusPath} :
                   (GetNodeFromPathOf(tree, path) = NoNode)
                       <=> OutOfRange(tree, path)
            /\ (\/ OutOfRange(tree, saved.anchorPath)
                \/ OutOfRange(tree, saved.focusPath))
                   => liveSelection' = liveSelection
      ]_vars

\* a deserialize has met an anchor path that no longer decodes, with a focus
\* path that does, while a range was selected
DecodeMissWitness ==
    /\ lastCall.op = "deserialize"
    /\ OutOfRange(tree, saved.anchorPath)
    /\ ~OutOfRange(tree, saved.focusPath)
    /\ liveSelection.rangeCount = 1

\* the d-th node up the parent chain of node, NoNode when the chain is shorter
RECURSIVE Ancestor(_, _, _)
Ancestor(T, node, d) ==
    IF d = 0 \/ node = NoNode THEN node
    ELSE Ancestor(T, ParentNode(T, node), d - 1)

\* path lists the 0-based child indices that lead from the root to node
IsPathTo(T, path, node) ==
    /\ Ancestor(T, node, Len(path)) = Root
    /\ \A k \in 1..Len(path) :
           LET parent == Ancestor(T, node, Len(path) - k + 1)
               child == Ancestor(T, node, Len(path) - k)
           IN  /\ path[k] + 1 \in 1..Len(T[parent].childNodes)
               /\ T[parent].childNodes[path[k] + 1] = child

PathResolves(h, path) ==
    \/ Len(path) = 0
    \/ Len(path) = 1 /\ path[1] \in 0..(h - 1)
    \/ Len(path) = 2 /\ path[1] \in 0..(h - 1) /\ path[2] = 0

\* the serialized selection has an end that is no node of the document h
AddressMiss(h, serialized) ==
    \/ ~PathResolves(h, serialized.anchorPath)
    \/ ~PathResolves(h, serialized.focusPath)

\* C19: an AddressMiss does not block the restoration of content.  When an
\* undo or redo command gets a snapshot whose selection does not resolve in
\* the restored document, the content is the snapshot's, the lock is
\* released and the history:undo / history:redo event is emitted, the
\* command having returned normally.
MissStillRestoresContent ==
    [][(/\ lastCall'.op \in {"execCommand", "replay"}
        /\ ret' # Null
        /\ ret'.selection # Null
        /\ AddressMiss(ret'.html, ret'.selection))
            => /\ replay' # Null
               /\ editable' = ret'.html
               /\ locked' = FALSE
               /\ \E i \in 1..Len(emitted') :
                      emitted'[i] = (IF replay'.id = "undo"
                                     THEN "history:undo" ELSE "history:redo")
      ]_vars

\* a command has restored a snapshot whose selection is in a text node that
\* the restored document does not have
MissRestoredWitness ==
    /\ lastCall.op \in {"execCommand", "replay"}
    /\ replay # Null
    /\ ret # Null
    /\ ret.selection # Null
    /\ AddressMiss(ret.html, ret.selection)
    /\ editable = ret.html

\* a step of the user or of the host: an input or an undo
UserStep == lastCall'.op \in {"input", "execCommand", "replay"}

\* the top of the undo stack holds the document's current content
Committed == Len(undoStack) > 0 /\ Last(undoStack).html = editable

\* C20: every observed edit eventually becomes committed.  When the steps of
\* the user come to an end on a live editor and the last of them was an
\* input (no undo has completed since, replay = Null), the two debounces
\* fire and from then on the top of the undo stack holds the document's
\* current content.
EditsGetCommitted ==
    <>[][~UserStep]_vars => <>[](replay # Null \/ Committed)

\* an input has been committed by the history debounce: the timeouts are
\* gone and the new content is on top of the initial snapshot
EditCommittedWitness ==
    /\ lastCall.op = "timer"
    /\ ~destroyed
    /\ replay = Null
    /\ timers = {}
    /\ Len(undoStack) >= 2
    /\ Committed

\* ------------------------------------------------------------------------
\* EventBus, as functions of the bus's state
\* ------------------------------------------------------------------------

\* The handlers a host registers, by what their code does when called:
\*   "h"        returns
\*   "thrower"  throws
\*   "remover"  calls off(event, h) for the event it is called with
\*   "emitter"  calls emit(event) for the event it is called with, unless it
\*              is already running
HandlerIds == {"h", "thrower", "remover", "emitter"}

\* the wildcard handlers: one that returns, one that throws
WildcardIds == {"any", "anyThrower"}

Throwers == {"thrower", "anyThrower"}

\* ListenerEntry
ListenerEntry(handler, once) == [handler |-> handler, once |-> once]

\* the array of an event during one emit: every entry carries the position
\* it had when the outermost emit began, which tells entries apart that hold
\* the same handler
Tagged(entries) ==
    [i \in 1..Len(entries) |->
        [handler |-> entries[i].handler, once |-> entries[i].once, tag |-> i]]

Untagged(entries) ==
    [i \in 1..Len(entries) |->
        ListenerEntry(entries[i].handler, entries[i].once)]

\* entries.findIndex((e) => e.handler === handler), 0 for -1
FindHandler(entries, handler) ==
    IF \E i \in 1..Len(entries) : entries[i].handler = handler
    THEN CHOOSE i \in 1..Len(entries) :
             /\ entries[i].handler = handler
             /\ \A j \in 1..(i - 1) : entries[j].handler # handler
    ELSE 0

\* entries.indexOf(entry), 0 for -1
FindEntry(entries, entry) ==
    IF \E i \in 1..Len(entries) : entries[i].tag = entry.tag
    THEN CHOOSE i \in 1..Len(entries) : entries[i].tag = entry.tag
    ELSE 0

\* entries.splice(idx, 1) for idx # -1
Splice(entries, idx) ==
    IF idx = 0 THEN entries
    ELSE SubSeq(entries, 1, idx - 1) \o SubSeq(entries, idx + 1, Len(entries))

\* EventBus.off(event, handler), on the entries of the event
Off(entries, handler) == Splice(entries, FindHandler(entries, handler))

\* an emit without try / catch: what a handler throws leaves the emit
PropagatesThrown(handler) == handler \in Throwers

\* try { entry.handler(payload) } catch: nothing a handler throws leaves the
\* try statement
Propagates(handler) == FALSE

\* what is written to invoked: the call of a handler, the return of an off
Called(handler) == [do |-> "call", handler |-> handler]
OffReturned(handler) == [do |-> "off", handler |-> handler]

\* The state of one emit in progress: the entries of the event, the wildcard
\* listeners, what has been invoked, and whether an exception is travelling
\* up the stack.
RECURSIVE RunEntries(_, _, _)
RECURSIVE RunWildcards(_, _)
RECURSIVE EmitEntries(_, _)

\* the call entry.handler(payload): what the handler's code does to the bus
InvokeHandler(J, handler, running) ==
    LET called == [J EXCEPT !.invoked = Append(@, Called(handler))]
    IN  IF handler = "remover"
        THEN [called EXCEPT !.entries = Off(@, "h"),
                            !.invoked = Append(@, OffReturned("h"))]
        ELSE IF handler = "emitter" /\ handler \notin running
        THEN EmitEntries(called, running \cup {handler})
        ELSE [called EXCEPT !.escaped = handler \in Throwers]

\* for (const entry of snapshot) { try ... catch ...; if (entry.once) ... }
RunEntries(J, snapshot, running) ==
    IF snapshot = <<>> \/ J.escaped THEN J
    ELSE LET entry == Head(snapshot)
             ran == InvokeHandler(J, entry.handler, running)
             caught == [ran EXCEPT !.escaped =
                           @ /\ Propagates(entry.handler)]
             spliced == IF entry.once /\ ~caught.escaped
                        THEN [caught EXCEPT !.entries =
                                 Splice(@, FindEntry(@, entry))]
                        ELSE caught
         IN  RunEntries(spliced, Tail(snapshot), running)

\* for (const wc of [...this.wildcardListeners]) { try ... catch ... }
RunWildcards(J, snapshot) ==
    IF snapshot = <<>> \/ J.escaped THEN J
    ELSE LET called == [J EXCEPT !.invoked = Append(@, Called(Head(snapshot))),
                                 !.escaped = /\ Head(snapshot) \in Throwers
                                             /\ Propagates(Head(snapshot))]
         IN  RunWildcards(called, Tail(snapshot))

\* EventBus.emit(event, payload) with the event's entries in J
EmitEntries(J, running) ==
    RunWildcards(RunEntries(J, J.entries, running), J.wildcardListeners)

\* EventBus.emit(event, payload) on the bus B
BusEmit(B, event) ==
    LET J == EmitEntries([entries |-> Tagged(B.listeners[event]),
                          wildcardListeners |-> B.wildcardListeners,
                          invoked |-> B.invoked, escaped |-> FALSE], {})
    IN  [listeners |-> [B.listeners EXCEPT ![event] = Untagged(J.entries)],
         wildcardListeners |-> B.wildcardListeners,
         invoked |-> J.invoked, escaped |-> J.escaped]

\* the bus at the start of a step: nothing invoked yet
Bus ==
    [listeners |-> listeners, wildcardListeners |-> wildcardListeners,
     invoked |-> <<>>, escaped |-> FALSE]

\* EventBus._addListener(event, handler, once)
AddListener(B, event, handler, once) ==
    [B EXCEPT !.listeners[event] = Append(@, ListenerEntry(handler, once))]

\* EventBus.off(event, handler)
BusOff(B, event, handler) ==
    [B EXCEPT !.listeners[event] = Off(@, handler)]

\* EventBus.offAll() without an event
OffAll(B) ==
    [B EXCEPT !.listeners = [event \in EventTypes |-> <<>>],
              !.wildcardListeners = <<>>]

\* write a bus state back to the variables
SetBus(B) ==
    /\ listeners' = B.listeners
    /\ wildcardListeners' = B.wildcardListeners
    /\ invoked' = B.invoked

\* ------------------------------------------------------------------------
\* SpecBus: an EventBus whose host registers, removes and emits
\* ------------------------------------------------------------------------

nonBusVars ==
    <<undoStack, redoStack, debounceTimer, locked, maxSize, timers, editable,
      liveSelection, uiTimer, destroyed, emitted, replay, pushLog, domVars,
      options, pluginVars>>

InitBus ==
    /\ NoEditor
    /\ liveSelection = NoRange
    /\ tree = EmptyTree
    /\ saved = Null
    /\ ret = Null
    /\ lastCall = [op |-> "new"]

BusOn ==
    \E handler \in HandlerIds :
        /\ Len(listeners["change"]) < MaxListeners
        /\ SetBus(AddListener(Bus, "change", handler, FALSE))
        /\ lastCall' = [op |-> "on", handler |-> handler]
        /\ ret' = Null
        /\ UNCHANGED nonBusVars

BusOnce ==
    \E handler \in HandlerIds :
        /\ Len(listeners["change"]) < MaxListeners
        /\ SetBus(AddListener(Bus, "change", handler, TRUE))
        /\ lastCall' = [op |-> "once", handler |-> handler]
        /\ ret' = Null
        /\ UNCHANGED nonBusVars

BusOnAny ==
    \E handler \in WildcardIds :
        /\ Len(wildcardListeners) < MaxWildcards
        /\ SetBus([Bus EXCEPT !.wildcardListeners = Append(@, handler)])
        /\ lastCall' = [op |-> "onAny", handler |-> handler]
        /\ ret' = Null
        /\ UNCHANGED nonBusVars

BusOffStep ==
    \E handler \in HandlerIds :
        /\ SetBus(BusOff(Bus, "change", handler))
        /\ lastCall' = [op |-> "off", handler |-> handler]
        /\ ret' = Null
        /\ UNCHANGED nonBusVars

BusEmitStep ==
    /\ SetBus(BusEmit(Bus, "change"))
    /\ lastCall' = [op |-> "emit", handler |-> "none"]
    /\ ret' = [threw |-> BusEmit(Bus, "change").escaped]
    /\ UNCHANGED nonBusVars

NextBus ==
    \/ BusOn
    \/ BusOnce
    \/ BusOnAny
    \/ BusOffStep
    \/ BusEmitStep

SpecBus == InitBus /\ [][NextBus]_vars

\* ------------------------------------------------------------------------
\* Properties of the EventBus (specification SpecBus)
\* ------------------------------------------------------------------------

\* the number of entries of the event that hold the handler
Registrations(event, handler) ==
    Cardinality({i \in 1..Len(listeners[event]) :
                    listeners[event][i].handler = handler})

\* C21: after off(event, h) has returned for a handler h registered once for
\* the event, h is not invoked again for it: an off called by the host leaves
\* no entry of h, and within one emit no call of h follows the return of an
\* off of h made by another handler.
OffStopsHandler ==
    [][Registrations("change", "h") <= 1
         => /\ (lastCall'.op = "off" /\ lastCall'.handler = "h")
                   => \A k \in 1..Len(listeners'["change"]) :
                          listeners'["change"][k].handler # "h"
            /\ \A i, j \in 1..Len(invoked') :
                   (i < j /\ invoked'[i] = OffReturned("h"))
                       => invoked'[j] # Called("h")
      ]_vars

\* the handler's only entry for the event was made by once
RegisteredOnce(event, handler) ==
    /\ Registrations(event, handler) = 1
    /\ \A k \in 1..Len(listeners[event]) :
           listeners[event][k].handler = handler => listeners[event][k].once

\* the calls of the handler among what was invoked
Calls(log, handler) ==
    Cardinality({i \in 1..Len(log) : log[i] = Called(handler)})

\* C26: a handler registered with once(event, h) is invoked at most once over
\* any sequence of emits, re-entrant emits included: a step calls it at most
\* once, and once called it has no entry left.
OnceAtMostOnce ==
    [][\A handler \in HandlerIds :
           RegisteredOnce("change", handler)
               => /\ Calls(invoked', handler) <= 1
                  /\ Calls(invoked', handler) = 1
                         => \A k \in 1..Len(listeners'["change"]) :
                                listeners'["change"][k].handler # handler
      ]_vars

\* a occurs in b, in order, possibly with other elements in between
RECURSIVE IsSubsequence(_, _)
IsSubsequence(a, b) ==
    IF a = <<>> THEN TRUE
    ELSE IF b = <<>> THEN FALSE
    ELSE IF Head(a) = Head(b) THEN IsSubsequence(Tail(a), Tail(b))
    ELSE IsSubsequence(a, Tail(b))

\* the handlers of the entries, in registration order
HandlersOf(entries) == [k \in 1..Len(entries) |-> entries[k].handler]

\* the handlers called, in call order
CallsIn(log) ==
    LET calls == SelectSeq(log, LAMBDA x : x.do = "call")
    IN  [k \in 1..Len(calls) |-> calls[k].handler]

\* C29: emit isolates handler failures.  No exception leaves emit, and every
\* handler registered for the event is called, in registration order, and
\* after them every wildcard listener, whatever a handler has thrown.
EmitIsolatesFailures ==
    [][lastCall'.op = "emit"
         => /\ ret'.threw = FALSE
            /\ IsSubsequence(HandlersOf(listeners["change"])
                                 \o wildcardListeners,
                             CallsIn(invoked'))
      ]_vars

\* an emit has called a handler that throws, then a handler registered after
\* it, then a wildcard listener
EmitAfterThrowWitness ==
    /\ lastCall.op = "emit"
    /\ ret.threw = FALSE
    /\ \E i, j, k \in 1..Len(invoked) :
           /\ i < j /\ j < k
           /\ invoked[i] = Called("thrower")
           /\ invoked[j] = Called("h")
           /\ invoked[k] = Called("any")

\* ------------------------------------------------------------------------
\* PluginManager
\* ------------------------------------------------------------------------

\* PluginDefinition objects: two distinct objects are named "p", one "q"
PluginDefs ==
    {[name |-> "p", object |-> 1], [name |-> "p", object |-> 2],
     [name |-> "q", object |-> 1]}

\* a PluginManager: the Map in insertion order, whether setContext has been
\* called, and the calls of plugin.init so far
NewPluginManager == [plugins |-> <<>>, context |-> FALSE, inits |-> <<>>]

\* PluginManager.setContext
SetContext(P) == [P EXCEPT !.context = TRUE]

\* PluginManager._init
InitPlugin(P, plugin) == [P EXCEPT !.inits = Append(@, plugin)]

\* this.plugins.has(name)
HasPlugin(P, name) == \E k \in 1..Len(P.plugins) : P.plugins[k].name = name

\* PluginManager.register
Register(P, plugin) ==
    IF HasPlugin(P, plugin.name) THEN P
    ELSE LET set == [P EXCEPT !.plugins = Append(@, plugin)]
         IN  IF set.context THEN InitPlugin(set, plugin) ELSE set

\* for (const plugin of list) this._init(plugin)
RECURSIVE InitEach(_, _)
InitEach(P, list) ==
    IF list = <<>> THEN P
    ELSE InitEach(InitPlugin(P, Head(list)), Tail(list))

\* PluginManager.initAll
InitAll(P) == InitEach(P, P.plugins)

\* PluginManager.destroyAll: every plugin is destroyed and deleted
DestroyAll(P) == [P EXCEPT !.plugins = <<>>]

\* TinyTextEditor._loadPlugins
RECURSIVE LoadPlugins(_, _)
LoadPlugins(P, list) ==
    IF list = <<>> THEN P
    ELSE LoadPlugins(Register(P, Head(list)), Tail(list))

\* the PluginManager as the constructor of the editor leaves it
ConstructPlugins(list) ==
    InitAll(LoadPlugins(SetContext(NewPluginManager), list))

\* the editor's PluginManager; its context was set by the constructor
Plugins == [plugins |-> plugins, context |-> TRUE, inits |-> inits]

SetPlugins(P) ==
    /\ plugins' = P.plugins
    /\ inits' = P.inits

\* ------------------------------------------------------------------------
\* SpecHost: an editor with plugins and event handlers, until it is destroyed
\* ------------------------------------------------------------------------

\* the handlers the host passes to editor.on
HostHandlers == {"h", "thrower"}

\* options.plugins
PluginLists == UNION {[1..n -> PluginDefs] : n \in 0..MaxPlugins}

\* new TinyTextEditor({plugins: list})
InitHost ==
    \E list \in PluginLists :
        /\ undoStack = <<HistorySnapshot(0, Null)>>
        /\ redoStack = <<>>
        /\ debounceTimer = 0
        /\ locked = FALSE
        /\ maxSize = MaxSize
        /\ timers = {}
        /\ editable = 0
        /\ liveSelection = NoRange
        /\ uiTimer = 0
        /\ destroyed = FALSE
        /\ emitted = <<"ready">>
        /\ lastCall = [op |-> "new", plugins |-> list]
        /\ ret = Null
        /\ replay = Null
        /\ pushLog = <<>>
        /\ tree = EmptyTree
        /\ saved = Null
        /\ options = DefaultOptions
        /\ listeners = [event \in EventTypes |-> <<>>]
        /\ wildcardListeners = <<>>
        /\ invoked = <<>>
        /\ plugins = ConstructPlugins(list).plugins
        /\ inits = ConstructPlugins(list).inits

nonHostVars ==
    <<undoStack, redoStack, debounceTimer, locked, maxSize, timers, editable,
      liveSelection, uiTimer, destroyed, replay, pushLog, domVars, options>>

\* editor.on(event, handler)
HostOn ==
    \E event \in EventTypes, handler \in HostHandlers :
        /\ Len(listeners[event]) < MaxListeners
        /\ SetBus(AddListener(Bus, event, handler, FALSE))
        /\ emitted' = <<>>
        /\ lastCall' = [op |-> "on", event |-> event, handler |-> handler]
        /\ ret' = Null
        /\ UNCHANGED <<nonHostVars, pluginVars>>

\* editor.off(event, handler)
HostOff ==
    \E event \in EventTypes, handler \in HostHandlers :
        /\ SetBus(BusOff(Bus, event, handler))
        /\ emitted' = <<>>
        /\ lastCall' = [op |-> "off", event |-> event, handler |-> handler]
        /\ ret' = Null
        /\ UNCHANGED <<nonHostVars, pluginVars>>

\* editor.registerPlugin(plugin); no handler of 'plugin:registered' is
\* followed
RegisterPlugin ==
    \E plugin \in PluginDefs :
        /\ ~destroyed
        /\ Len(plugins) < MaxPlugins \/ HasPlugin(Plugins, plugin.name)
        /\ SetPlugins(Register(Plugins, plugin))
        /\ invoked' = <<>>
        /\ emitted' = <<"plugin:registered">>
        /\ lastCall' = [op |-> "registerPlugin", plugin |-> plugin]
        /\ ret' = Null
        /\ UNCHANGED <<nonHostVars, listeners, wildcardListeners>>

\* editor.destroy(): plugins.destroyAll(), events.offAll(), history.clear()
\* and at last events.emit('destroy', {})
HostDestroy ==
    /\ SetEditor(Destroy(Editor))
    /\ IF destroyed
       THEN /\ invoked' = <<>>
            /\ UNCHANGED <<listeners, wildcardListeners, pluginVars>>
       ELSE /\ SetBus(BusEmit(OffAll(Bus), "destroy"))
            /\ SetPlugins(DestroyAll(Plugins))
    /\ lastCall' = [op |-> "destroy"]
    /\ ret' = Null
    /\ UNCHANGED <<replay, pushLog, domVars, options>>

NextHost ==
    \/ HostOn
    \/ HostOff
    \/ RegisterPlugin
    \/ HostDestroy

SpecHost == InitHost /\ [][NextHost]_vars

\* ------------------------------------------------------------------------
\* Properties of the editor's lifecycle (specification SpecHost)
\* ------------------------------------------------------------------------

\* the number of calls of plugin.init
InitCount(plugin) ==
    Cardinality({k \in 1..Len(inits) : inits[k] = plugin})

\* C27: every plugin registered with the editor has had its init called
\* exactly once, no plugin's init is called more than once, and registering
\* a plugin under a name that is taken changes neither the registered
\* plugins nor the calls of init.
PluginInitExactlyOnce ==
    [][/\ \A plugin \in PluginDefs :
              /\ InitCount(plugin) <= 1
              /\ (\E k \in 1..Len(plugins) : plugins[k] = plugin)
                      => InitCount(plugin) = 1
       /\ (/\ lastCall'.op = "registerPlugin"
           /\ HasPlugin(Plugins, lastCall'.plugin.name))
              => UNCHANGED pluginVars
      ]_vars

\* C28: the first destroy() calls every handler registered once for
\* 'destroy' exactly once, and a destroy() of a destroyed editor changes
\* nothing and calls nothing.
DestroyDeliveredOnce ==
    [][lastCall'.op = "destroy"
         => IF destroyed
            THEN /\ invoked' = <<>>
                 /\ emitted' = <<>>
                 /\ UNCHANGED <<historyVars, timers, editable, destroyed,
                                listeners, wildcardListeners, pluginVars>>
            ELSE \A handler \in HostHandlers :
                     Registrations("destroy", handler) = 1
                         => Calls(invoked', handler) = 1
      ]_vars

\* ------------------------------------------------------------------------
\* Further properties of the history (specifications Spec and SpecEditor)
\* ------------------------------------------------------------------------

\* C23: when the two newest snapshots of the undo stack hold A and then B,
\* A # B, and the document shows B, an undo command that completes leaves
\* the document showing A.
UndoStepsBack ==
    [][(/\ Len(undoStack) >= 2
        /\ Last(undoStack).html = editable
        /\ undoStack[Len(undoStack) - 1].html # editable
        /\ replay' # Null
        /\ replay'.id = "undo")
           => editable' = undoStack[Len(undoStack) - 1].html
      ]_vars

\* C24: no two adjacent entries of the undo stack have the same content.
NoAdjacentDuplicates ==
    \A k \in 1..(Len(undoStack) - 1) :
        undoStack[k].html # undoStack[k + 1].html

\* C25: the two stacks together never hold more than maxSize snapshots, so
\* neither stack does.
StacksTogetherBounded ==
    /\ Len(undoStack) + Len(redoStack) <= maxSize
    /\ Len(undoStack) <= maxSize
    /\ Len(redoStack) <= maxSize

\* a redo has just appended to the undo stack while the two stacks together
\* are full and the redo stack still holds a snapshot
RedoAtCapacityWitness ==
    /\ lastCall.op = "redo"
    /\ ret # Null
    /\ redoStack # <<>>
    /\ Len(undoStack) + Len(redoStack) = maxSize

\* ------------------------------------------------------------------------
\* SpecLimit: a live editor constructed with options.maxLength
\* ------------------------------------------------------------------------

\* the contents the user can type in SpecLimit
LimitHtmls == 0..(MaxHtml + 1)

\* this.editable.innerText.length in the document h: one character for each
\* paragraph and the two line breaks the platform puts between paragraphs
InnerTextLength(h) == IF h = 0 THEN 0 ELSE 3 * h - 2

\* a change handler that does not look at options.maxLength
OnContentChangeUnlimited(E, opts) == OnContentChange(E)

\* TinyTextEditor._onContentChange under the options opts
OnContentChangeWith(E, opts) ==
    IF E.destroyed THEN E
    ELSE IF /\ opts.maxLength > 0
            /\ InnerTextLength(E.editable) > opts.maxLength
    THEN E
    ELSE Emit([E EXCEPT !.history = Push(E.history, E.editable,
                                         Serialize(E.liveSelection), FALSE,
                                         {E.uiTimer})],
              "change")

\* new TinyTextEditor({maxLength}) with no content
InitLimit ==
    \E maxLength \in 0..MaxLength :
        /\ undoStack = <<HistorySnapshot(0, Null)>>
        /\ redoStack = <<>>
        /\ debounceTimer = 0
        /\ locked = FALSE
        /\ maxSize = MaxSize
        /\ timers = {}
        /\ editable = 0
        /\ liveSelection = NoRange
        /\ uiTimer = 0
        /\ destroyed = FALSE
        /\ emitted = <<>>
        /\ lastCall = [op |-> "new", html |-> 0, selection |-> Null,
                       immediate |-> TRUE, follows |-> "none"]
        /\ ret = Null
        /\ replay = Null
        /\ pushLog = <<>>
        /\ tree = EmptyTree
        /\ saved = Null
        /\ options = [DefaultOptions EXCEPT !.maxLength = maxLength]
        /\ listeners = [event \in EventTypes |-> <<>>]
        /\ wildcardListeners = <<>>
        /\ invoked = <<>>
        /\ plugins = <<>>
        /\ inits = <<>>

\* the user edits the document, which can make it longer than maxLength
LimitInput ==
    \E h \in LimitHtmls \ {editable} :
        /\ ~destroyed
        /\ Cardinality(timers) < MaxTimers
        /\ SetEditor(Debounced([Editor EXCEPT
               !.editable = h,
               !.liveSelection = CaretIn(h)]))
        /\ lastCall' = Call("input", h, Null, FALSE)
        /\ ret' = Null
        /\ replay' = Null
        /\ UNCHANGED <<pushLog, domVars, hostVars>>

\* the runtime runs the timeout of the debounced change handler
LimitChange ==
    \E t \in timers :
        /\ t.kind = "ui"
        /\ SetEditor(OnContentChangeWith(
               [Editor EXCEPT !.history.timers = timers \ {t}], options))
        /\ lastCall' = Call("change", 0, Null, FALSE)
        /\ ret' = Null
        /\ replay' = Null
        /\ UNCHANGED <<pushLog, domVars, hostVars>>

NextLimit ==
    \/ LimitInput
    \/ LimitChange
    \/ TimerFire
    \/ EditorUndo
    \/ EditorRedo
    \/ DestroyStep

SpecLimit == InitLimit /\ [][NextLimit]_vars

\* the document is longer than a maxLength that is in force
OverLong == /\ options.maxLength > 0
            /\ InnerTextLength(editable) > options.maxLength

Markup(doc, script, normal) ==
    4 * doc + (IF script THEN 2 ELSE 0) + (IF normal THEN 0 ELSE 1)

Markups == {Markup(doc, script, normal) :
                doc \in Htmls, script \in BOOLEAN, normal \in BOOLEAN}

\* the string ''
EmptyString == Markup(0, FALSE, TRUE)

\* element.innerHTML = html: the child nodes the parser builds
ParseHTML(html) == [doc |-> html \div 4, script |-> (html \div 2) % 2 = 1]

\* reading element.innerHTML: the serialization of the child nodes
InnerHTML(dom) == Markup(dom.doc, dom.script, TRUE)

\* SchemaValidator.sanitizeNode of a validator with strict = true: elements
\* outside the allowed tags are removed
SanitizeNode(dom) == [dom EXCEPT !.script = FALSE]

\* SchemaValidator.sanitize
Sanitize(html) == InnerHTML(SanitizeNode(ParseHTML(html)))

\* const sanitized = this._options.sanitize ? ... : html
Sanitized(opts, html) == IF opts.sanitize THEN Sanitize(html) ELSE html

\* TinyTextEditor.setHTML
SetHTML(E, opts, html) ==
    [E EXCEPT !.editable = InnerHTML(ParseHTML(Sanitized(opts, html))),
              !.liveSelection = AfterReplaceChildren(@),
              !.history = Push(E.history, Sanitized(opts, html), Null, TRUE,
                               {E.uiTimer})]

\* the editor when the constructor has built its managers and its DOM
NewEditor ==
    [history |-> [undoStack |-> <<>>, redoStack |-> <<>>,
                  debounceTimer |-> 0, locked |-> FALSE,
                  maxSize |-> MaxSize, timers |-> {}],
     editable |-> EmptyString, liveSelection |-> NoRange, uiTimer |-> 0,
     destroyed |-> FALSE, emitted |-> <<>>]

\* the constructor from 'Set initial content' to 'Emit ready'
Construct(opts, content) ==
    LET set == IF content # EmptyString
               THEN SetHTML(NewEditor, opts, content)
               ELSE NewEditor
    IN  Emit([set EXCEPT !.history = Push(set.history, set.editable, Null,
                                          TRUE, {})],
             "ready")

\* ------------------------------------------------------------------------
\* SpecContent: a live editor whose host replaces the content
\* ------------------------------------------------------------------------

\* new TinyTextEditor({content, sanitize})
InitContent ==
    \E content \in Markups, sanitize \in BOOLEAN :
        LET opts == [DefaultOptions EXCEPT !.sanitize = sanitize]
            E == Construct(opts, content)
        IN  /\ undoStack = E.history.undoStack
            /\ redoStack = E.history.redoStack
            /\ debounceTimer = E.history.debounceTimer
            /\ locked = E.history.locked
            /\ maxSize = E.history.maxSize
            /\ timers = E.history.timers
            /\ editable = E.editable
            /\ liveSelection = E.liveSelection
            /\ uiTimer = E.uiTimer
            /\ destroyed = E.destroyed
            /\ emitted = E.emitted
            /\ lastCall = [op |-> "new", content |-> content]
            /\ ret = Null
            /\ replay = Null
            /\ pushLog = <<>>
            /\ tree = EmptyTree
            /\ saved = Null
            /\ options = opts
            /\ listeners = [event \in EventTypes |-> <<>>]
            /\ wildcardListeners = <<>>
            /\ invoked = <<>>
            /\ plugins = <<>>
            /\ inits = <<>>

\* the user edits the document into another one
ContentInput ==
    \E doc \in Htmls \ {ParseHTML(editable).doc} :
        /\ ~destroyed
        /\ Cardinality(timers) < MaxTimers
        /\ SetEditor(Debounced([Editor EXCEPT
               !.editable = InnerHTML([doc |-> doc, script |-> FALSE]),
               !.liveSelection = CaretIn(doc)]))
        /\ lastCall' = [op |-> "input"]
        /\ ret' = Null
        /\ replay' = Null
        /\ UNCHANGED <<pushLog, domVars, hostVars>>

\* editor.setHTML(html)
SetHTMLStep ==
    \E html \in Markups :
        /\ SetEditor(SetHTML(Editor, options, html))
        /\ lastCall' = [op |-> "setHTML", html |-> html]
        /\ ret' = Null
        /\ replay' = Null
        /\ UNCHANGED <<pushLog, domVars, hostVars>>

NextContent ==
    \/ ContentInput
    \/ UiTimerFire
    \/ TimerFire
    \/ SetHTMLStep
    \/ DestroyStep

SpecContent == InitContent /\ [][NextContent]_vars

\* C22: when the constructor returns the undo stack holds exactly one
\* snapshot, of the initial content, and the redo stack is empty; and when
\* setHTML(h) returns on an unlocked editor the top of the undo stack holds
\* the (sanitized) content just installed and no debounce timeout of the
\* history is pending.
ContentCommittedAtOnce ==
    [][/\ lastCall.op = "new"
              => /\ Len(undoStack) = 1
                 /\ undoStack[1].html = editable
                 /\ redoStack = <<>>
       /\ (lastCall'.op = "setHTML" /\ ~locked)
              => /\ undoStack' # <<>>
                 /\ Last(undoStack').html = Sanitized(options, lastCall'.html)
                 /\ debounceTimer' = 0
                 /\ HistoryTimers' = {}
      ]_vars

=============================================================================
